---------------------------- MODULE Spec2Model ----------------------------
(***************************************************************************)
(* download_repo of src/main/services/clone_repo_demo.py: a version check, *)
(* an existence check of local_path, directory creation, construction of   *)
(* the clone URL, a shallow clone, and the translation of every failure    *)
(* into an error message with the access token redacted.                   *)
(*                                                                         *)
(* A Python str is a sequence of one-character strings, so that URL        *)
(* parsing, str.replace and the `in` test are computed, not assumed.       *)
(***************************************************************************)
EXTENDS Integers, Sequences, FiniteSets, TLC

(***************************************************************************)
(* Bounds of the model.                                                    *)
(***************************************************************************)
\* Longest access token drawn.
MaxTokLen == 3
\* Longest stderr text drawn for a failing subprocess.
MaxErrLen == 3
\* Longest tail (path, params, query, fragment) of a drawn repo_url.
MaxUrlLen == 3
\* Calls of download_repo made one after another on the same file system.
MaxCalls == 2

(***************************************************************************)
(* Strings.                                                                *)
(***************************************************************************)
Seqs(A, n) == UNION {[1..k -> A] : k \in 0..n}

\* str.find(c, from): the first index >= from holding c; 0 when there is none
\* (indices are 1-based here, so Python's -1 is 0 and Python's i is i + 1).
Find(s, c, from) ==
  LET I == {i \in from..Len(s) : s[i] = c}
  IN  IF I = {} THEN 0 ELSE CHOOSE i \in I : \A j \in I : i <= j

\* str.rfind(c)
RFind(s, c) ==
  LET I == {i \in 1..Len(s) : s[i] = c}
  IN  IF I = {} THEN 0 ELSE CHOOSE i \in I : \A j \in I : j <= i

\* sub in s
Occurs(sub, s) ==
  \E i \in 0..(Len(s) - Len(sub)) : SubSeq(s, i + 1, i + Len(sub)) = sub

\* s.startswith(pre)
StartsWith(s, pre) == Len(pre) <= Len(s) /\ SubSeq(s, 1, Len(pre)) = pre

RECURSIVE Interleave(_, _)
\* "".join(c + new for c in s): what str.replace("", new) puts after each character
Interleave(s, new) ==
  IF s = <<>> THEN <<>> ELSE <<Head(s)>> \o new \o Interleave(Tail(s), new)

RECURSIVE ReplaceScan(_, _, _)
ReplaceScan(s, old, new) ==
  IF Len(s) < Len(old) THEN s
  ELSE IF SubSeq(s, 1, Len(old)) = old
       THEN new \o ReplaceScan(SubSeq(s, Len(old) + 1, Len(s)), old, new)
       ELSE <<Head(s)>> \o ReplaceScan(Tail(s), old, new)

\* str.replace(old, new): every non-overlapping occurrence, left to right; an
\* empty old matches before every character and at the end.
Replace(s, old, new) ==
  IF old = <<>> THEN new \o Interleave(s, new) ELSE ReplaceScan(s, old, new)

\* str.split(":", 1) of a string that holds a colon
SplitFirstColon(s) ==
  LET i == Find(s, ":", 1)
  IN  <<SubSeq(s, 1, i - 1), SubSeq(s, i + 1, Len(s))>>

(***************************************************************************)
(* urllib.parse, as download_repo uses it.                                 *)
(***************************************************************************)
LowerLetters == <<"a", "b", "c", "d", "e", "f", "g", "h", "i", "j", "k", "l", "m", "n", "o", "p", "q", "r", "s", "t", "u", "v", "w", "x", "y", "z">>
UpperLetters == <<"A", "B", "C", "D", "E", "F", "G", "H", "I", "J", "K", "L", "M", "N", "O", "P", "Q", "R", "S", "T", "U", "V", "W", "X", "Y", "Z">>
Range(s) == {s[i] : i \in 1..Len(s)}
IsAlpha(c) == c \in Range(LowerLetters) \cup Range(UpperLetters)
scheme_chars == Range(LowerLetters) \cup Range(UpperLetters) \cup Range(<<"0", "1", "2", "3", "4", "5", "6", "7", "8", "9", "+", "-", ".">>)

LowerChar(c) ==
  IF c \in Range(UpperLetters)
  THEN LowerLetters[CHOOSE k \in 1..Len(UpperLetters) : UpperLetters[k] = c]
  ELSE c

RECURSIVE Lower(_)
\* str.lower()
Lower(s) == IF s = <<>> THEN <<>> ELSE <<LowerChar(Head(s))>> \o Lower(Tail(s))

uses_netloc == {<<>>, <<"f", "t", "p">>, <<"h", "t", "t", "p">>, <<"g", "o", "p", "h", "e", "r">>, <<"n", "n", "t", "p">>, <<"t", "e", "l", "n", "e", "t">>, <<"i", "m", "a", "p">>, <<"w", "a", "i", "s">>, <<"f", "i", "l", "e">>, <<"m", "m", "s">>, <<"h", "t", "t", "p", "s">>, <<"s", "h", "t", "t", "p">>, <<"s", "n", "e", "w", "s">>, <<"p", "r", "o", "s", "p", "e", "r", "o">>, <<"r", "t", "s", "p">>, <<"r", "t", "s", "p", "s">>, <<"r", "t", "s", "p", "u">>, <<"r", "s", "y", "n", "c">>, <<"s", "v", "n">>, <<"s", "v", "n", "+", "s", "s", "h">>, <<"s", "f", "t", "p">>, <<"n", "f", "s">>, <<"g", "i", "t">>, <<"g", "i", "t", "+", "s", "s", "h">>, <<"w", "s">>, <<"w", "s", "s">>}

uses_params == {<<>>, <<"f", "t", "p">>, <<"h", "d", "l">>, <<"p", "r", "o", "s", "p", "e", "r", "o">>, <<"h", "t", "t", "p">>, <<"i", "m", "a", "p">>, <<"h", "t", "t", "p", "s">>, <<"s", "h", "t", "t", "p">>, <<"r", "t", "s", "p">>, <<"r", "t", "s", "p", "s">>, <<"r", "t", "s", "p", "u">>, <<"s", "i", "p">>, <<"s", "i", "p", "s">>, <<"m", "m", "s">>, <<"s", "f", "t", "p">>, <<"t", "e", "l">>}

\* The C0 control characters U+0000..U+001F in the order of their codes. Tab,
\* line feed, form feed and carriage return are the characters themselves, the
\* others are written as Python writes them ("\\x00" is U+0000).
C0Controls ==
  <<"\\x00", "\\x01", "\\x02", "\\x03", "\\x04", "\\x05", "\\x06", "\\x07",
    "\\x08", "\t", "\n", "\\x0b", "\f", "\r", "\\x0e", "\\x0f",
    "\\x10", "\\x11", "\\x12", "\\x13", "\\x14", "\\x15", "\\x16", "\\x17",
    "\\x18", "\\x19", "\\x1a", "\\x1b", "\\x1c", "\\x1d", "\\x1e", "\\x1f">>
Delete == "\\x7f"

\* Leading characters urlsplit strips (_WHATWG_C0_CONTROL_OR_SPACE), and the
\* characters it deletes anywhere (_UNSAFE_URL_BYTES_TO_REMOVE).
WhatwgC0ControlOrSpace == Range(C0Controls) \cup {" "}
UnsafeUrlBytesToRemove == {"\t", "\r", "\n"}

RECURSIVE LStrip(_)
LStrip(s) ==
  IF s # <<>> /\ Head(s) \in WhatwgC0ControlOrSpace THEN LStrip(Tail(s)) ELSE s

IsSafeUrlChar(c) == c \notin UnsafeUrlBytesToRemove

\* _splitnetloc(url, 2): the end of the network location is the first of / ? #
NetlocEnd(url) ==
  LET D == {Find(url, c, 3) : c \in {"/", "?", "#"}} \ {0}
  IN  IF D = {} THEN Len(url) + 1 ELSE CHOOSE d \in D : \A e \in D : d <= e

\* The scheme of urlsplit: <<scheme, rest>>. A scheme is a letter followed by
\* scheme_chars up to the first colon, and is lower-cased.
SplitScheme(url) ==
  LET i == Find(url, ":", 1)
  IN  IF /\ i > 1
         /\ IsAlpha(url[1])
         /\ \A k \in 1..(i - 1) : url[k] \in scheme_chars
      THEN <<Lower(SubSeq(url, 1, i - 1)), SubSeq(url, i + 1, Len(url))>>
      ELSE << <<>>, url>>

\* `if url[:2] == '//': netloc, url = _splitnetloc(url, 2)`: <<netloc, rest>>
SplitNetloc(url) ==
  IF StartsWith(url, <<"/", "/">>)
  THEN <<SubSeq(url, 3, NetlocEnd(url) - 1), SubSeq(url, NetlocEnd(url), Len(url))>>
  ELSE << <<>>, url>>

\* `if c in url: url, rest = url.split(c, 1)`: <<url, rest>>
SplitOnce(url, c) ==
  IF Find(url, c, 1) = 0 THEN <<url, <<>> >>
  ELSE <<SubSeq(url, 1, Find(url, c, 1) - 1),
         SubSeq(url, Find(url, c, 1) + 1, Len(url))>>

\* str.split(c)
RECURSIVE Split(_, _)
Split(s, c) ==
  IF Find(s, c, 1) = 0 THEN <<s>>
  ELSE <<SubSeq(s, 1, Find(s, c, 1) - 1)>> \o Split(SubSeq(s, Find(s, c, 1) + 1, Len(s)), c)

(***************************************************************************)
(* ipaddress.ip_address, as urlsplit uses it on a bracketed host.          *)
(***************************************************************************)
DecimalDigits == <<"0", "1", "2", "3", "4", "5", "6", "7", "8", "9">>
HexDigits == <<"0", "1", "2", "3", "4", "5", "6", "7", "8", "9", "a", "b", "c", "d", "e", "f">>
\* _BaseV6._HEX_DIGITS
HEX_DIGITS == Range(<<"0", "1", "2", "3", "4", "5", "6", "7", "8", "9", "A", "B", "C", "D", "E", "F", "a", "b", "c", "d", "e", "f">>)
\* _BaseV6._HEXTET_COUNT
HEXTET_COUNT == 8

DigitValue(c) == (CHOOSE k \in 1..Len(DecimalDigits) : DecimalDigits[k] = c) - 1

\* int(s, 10) of a string of decimal digits
RECURSIVE Int10(_)
Int10(s) ==
  IF s = <<>> THEN 0
  ELSE 10 * Int10(SubSeq(s, 1, Len(s) - 1)) + DigitValue(s[Len(s)])

\* '%x' % n
RECURSIVE Hex(_)
Hex(n) ==
  IF n < 16 THEN <<HexDigits[n + 1]>>
  ELSE Hex(n \div 16) \o <<HexDigits[(n % 16) + 1]>>

\* _BaseV4._parse_octet goes through: decimal digits, at most three, no
\* leading zero, at most 255.
ParseOctetOk(octet_str) ==
  /\ octet_str # <<>>
  /\ Range(octet_str) \subseteq Range(DecimalDigits)
  /\ Len(octet_str) <= 3
  /\ ~(octet_str # <<"0">> /\ octet_str[1] = "0")
  /\ Int10(octet_str) <= 255

\* IPv4Address(addr_str) goes through
IsIPv4Address(addr_str) ==
  /\ "/" \notin Range(addr_str)
  /\ addr_str # <<>>
  /\ Len(Split(addr_str, ".")) = 4
  /\ \A i \in 1..4 : ParseOctetOk(Split(addr_str, ".")[i])

\* The two hextets that replace an IPv4-style suffix with the octets o:
\* '%x' % ((ipv4_int >> 16) & 0xFFFF), '%x' % (ipv4_int & 0xFFFF)
IPv4Hextets(o) ==
  <<Hex(256 * Int10(o[1]) + Int10(o[2])), Hex(256 * Int10(o[3]) + Int10(o[4]))>>

\* `if '.' in parts[-1]`: <<ok, parts>>, ok is FALSE where the suffix is not
\* an IPv4 address.
WithoutIPv4Suffix(parts) ==
  IF "." \in Range(parts[Len(parts)])
  THEN IF IsIPv4Address(parts[Len(parts)])
       THEN <<TRUE, SubSeq(parts, 1, Len(parts) - 1)
                    \o IPv4Hextets(Split(parts[Len(parts)], "."))>>
       ELSE <<FALSE, parts>>
  ELSE <<TRUE, parts>>

\* _BaseV6._parse_hextet goes through (int('', 16) raises ValueError)
ParseHextetOk(hextet_str) ==
  /\ Range(hextet_str) \subseteq HEX_DIGITS
  /\ Len(hextet_str) <= 4
  /\ hextet_str # <<>>

\* The empty parts other than the first and the last: the places of a '::'
\* (index i here is skip_index + 1).
SkipIndexes(parts) == {i \in 2..(Len(parts) - 1) : parts[i] = <<>>}

\* The hextets before and after the '::' at index skip parse.
HextetsAround(parts, parts_hi, parts_lo) ==
  /\ parts[1] = <<>> => parts_hi = 0
  /\ parts[Len(parts)] = <<>> => parts_lo = 0
  /\ HEXTET_COUNT - (parts_hi + parts_lo) >= 1
  /\ \A i \in 1..parts_hi : ParseHextetOk(parts[i])
  /\ \A i \in (Len(parts) - parts_lo + 1)..Len(parts) : ParseHextetOk(parts[i])

HextetsWithSkip(parts, skip) ==
  HextetsAround(parts,
                IF parts[1] = <<>> THEN skip - 2 ELSE skip - 1,
                IF parts[Len(parts)] = <<>> THEN Len(parts) - skip - 1
                ELSE Len(parts) - skip)

\* The second half of _BaseV6._ip_int_from_string goes through
HextetsOk(parts) ==
  IF Cardinality(SkipIndexes(parts)) > 1 THEN FALSE
  ELSE IF SkipIndexes(parts) # {}
  THEN HextetsWithSkip(parts, CHOOSE i \in SkipIndexes(parts) : TRUE)
  ELSE /\ Len(parts) = HEXTET_COUNT
       /\ \A i \in 1..Len(parts) : ParseHextetOk(parts[i])

IPv6PartsOk(suffixed) ==
  /\ suffixed[1]
  /\ Len(suffixed[2]) <= HEXTET_COUNT + 1
  /\ HextetsOk(suffixed[2])

\* _BaseV6._ip_int_from_string(ip_str) goes through
IPv6FromStringOk(ip_str) ==
  /\ ip_str # <<>>
  /\ Len(Split(ip_str, ":")) >= 3
  /\ IPv6PartsOk(WithoutIPv4Suffix(Split(ip_str, ":")))

\* IPv6Address(addr_str) goes through: no '/', a scope id after '%' that is
\* not empty and holds no '%', and the address before it.
IsIPv6Address(addr_str) ==
  /\ "/" \notin Range(addr_str)
  /\ "%" \in Range(addr_str) =>
       /\ SplitOnce(addr_str, "%")[2] # <<>>
       /\ "%" \notin Range(SplitOnce(addr_str, "%")[2])
  /\ IPv6FromStringOk(SplitOnce(addr_str, "%")[1])

\* repr of one character of a str inside the quote q
ReprChar(c, q) ==
  IF c = "\\" THEN <<"\\", "\\">>
  ELSE IF c = q THEN <<"\\", q>>
  ELSE IF c = "\t" THEN <<"\\", "t">>
  ELSE IF c = "\n" THEN <<"\\", "n">>
  ELSE IF c = "\r" THEN <<"\\", "r">>
  ELSE IF c \in Range(C0Controls)
  THEN <<"\\", "x">> \o (IF (CHOOSE k \in 1..Len(C0Controls) : C0Controls[k] = c) <= 16
                         THEN <<"0">> ELSE <<>>)
       \o Hex((CHOOSE k \in 1..Len(C0Controls) : C0Controls[k] = c) - 1)
  ELSE IF c = Delete THEN <<"\\", "x", "7", "f">>
  ELSE <<c>>

RECURSIVE ReprChars(_, _)
ReprChars(s, q) ==
  IF s = <<>> THEN <<>> ELSE ReprChar(Head(s), q) \o ReprChars(Tail(s), q)

ReprQuoted(s, q) == <<q>> \o ReprChars(s, q) \o <<q>>

\* repr(s) of an ASCII str: double quotes when s holds ' and no "
Repr(s) ==
  ReprQuoted(s, IF "'" \in Range(s) /\ "\"" \notin Range(s) THEN "\"" ELSE "'")

InvalidIPv6Text == <<"I", "n", "v", "a", "l", "i", "d", " ", "I", "P", "v", "6", " ", "U", "R", "L">>
IPvFutureInvalidText == <<"I", "P", "v", "F", "u", "t", "u", "r", "e", " ", "a", "d", "d", "r", "e", "s", "s", " ", "i", "s", " ", "i", "n", "v", "a", "l", "i", "d">>
IPv4InBracketsText == <<"A", "n", " ", "I", "P", "v", "4", " ", "a", "d", "d", "r", "e", "s", "s", " ", "c", "a", "n", "n", "o", "t", " ", "b", "e", " ", "i", "n", " ", "b", "r", "a", "c", "k", "e", "t", "s">>
NotAnAddressText(address) ==
  Repr(address) \o <<" ", "d", "o", "e", "s", " ", "n", "o", "t", " ", "a", "p", "p", "e", "a", "r", " ", "t", "o", " ", "b", "e", " ", "a", "n", " ", "I", "P", "v", "4", " ", "o", "r", " ", "I", "P", "v", "6", " ", "a", "d", "d", "r", "e", "s", "s">>

Checked == [ok |-> TRUE, err |-> <<>>]
Rejected(text) == [ok |-> FALSE, err |-> text]

\* re.match(r"\Av[a-fA-F0-9]+\..+\Z", hostname) of a hostname that starts with v
IsIPvFuture(hostname) ==
  \E k \in 1..(Len(hostname) - 3) :
    /\ \A j \in 2..(k + 1) : hostname[j] \in HEX_DIGITS
    /\ hostname[k + 2] = "."
    /\ "\n" \notin Range(SubSeq(hostname, k + 3, Len(hostname)))

\* _check_bracketed_host(hostname)
check_bracketed_host(hostname) ==
  IF StartsWith(hostname, <<"v">>)
  THEN IF IsIPvFuture(hostname) THEN Checked ELSE Rejected(IPvFutureInvalidText)
  ELSE IF IsIPv4Address(hostname) THEN Rejected(IPv4InBracketsText)
  ELSE IF IsIPv6Address(hostname) THEN Checked
  ELSE Rejected(NotAnAddressText(hostname))

\* The checks of urlsplit on the network location: the brackets pair up and
\* hold an IPv6 or IPvFuture address (netloc.partition('[')[2].partition(']')[0]).
\* _checknetloc returns at once for an ASCII netloc, and every character drawn
\* here is ASCII.
CheckNetloc(netloc) ==
  IF ("[" \in Range(netloc)) # ("]" \in Range(netloc)) THEN Rejected(InvalidIPv6Text)
  ELSE IF "[" \in Range(netloc)
  THEN check_bracketed_host(SplitOnce(SplitOnce(netloc, "[")[2], "]")[1])
  ELSE Checked

\* ok is FALSE where urlsplit raises ValueError, err is its text.
SplitChecked(checked, scheme, netloc, pq, fragment) ==
  [ok       |-> checked.ok,
   err      |-> checked.err,
   scheme   |-> scheme,
   netloc   |-> netloc,
   path     |-> pq[1],
   query    |-> pq[2],
   fragment |-> fragment]

SplitResult(scheme, netloc, pq, fragment) ==
  SplitChecked(CheckNetloc(netloc), scheme, netloc, pq, fragment)

SplitQuery(scheme, netloc, uf) ==
  SplitResult(scheme, netloc, SplitOnce(uf[1], "?"), uf[2])
SplitFragment(scheme, nu) == SplitQuery(scheme, nu[1], SplitOnce(nu[2], "#"))
SplitAfterScheme(su) == SplitFragment(su[1], SplitNetloc(su[2]))

\* urlsplit(url)
urlsplit(raw) == SplitAfterScheme(SplitScheme(SelectSeq(LStrip(raw), IsSafeUrlChar)))

\* _splitparams(url): <<url, params>>
splitparams(url) ==
  LET slash == RFind(url, "/")
      i     == IF slash > 0 THEN Find(url, ";", slash) ELSE Find(url, ";", 1)
  IN  IF i = 0 THEN <<url, <<>> >>
      ELSE <<SubSeq(url, 1, i - 1), SubSeq(url, i + 1, Len(url))>>

ParseResult(s, sp) ==
  [ok       |-> s.ok,
   err      |-> s.err,
   scheme   |-> s.scheme,
   netloc   |-> s.netloc,
   path     |-> sp[1],
   params   |-> sp[2],
   query    |-> s.query,
   fragment |-> s.fragment]

\* `if scheme in uses_params and ';' in url: url, params = _splitparams(url)`
ParseSplit(s) ==
  ParseResult(s, IF s.scheme \in uses_params /\ ";" \in Range(s.path)
                 THEN splitparams(s.path) ELSE <<s.path, <<>> >>)

\* urlparse(url)
urlparse(raw) == ParseSplit(urlsplit(raw))

\* `if url and url[:1] != '/': url = '/' + url`
Rooted(url) == IF url # <<>> /\ Head(url) # "/" THEN <<"/">> \o url ELSE url

\* urlunsplit((scheme, netloc, url, query, fragment))
urlunsplit(scheme, netloc, url, query, fragment) ==
  (IF scheme # <<>> THEN scheme \o <<":">> ELSE <<>>)
  \o (IF \/ netloc # <<>>
         \/ scheme # <<>> /\ scheme \in uses_netloc /\ ~StartsWith(url, <<"/", "/">>)
      THEN <<"/", "/">> \o netloc \o Rooted(url)
      ELSE url)
  \o (IF query # <<>> THEN <<"?">> \o query ELSE <<>>)
  \o (IF fragment # <<>> THEN <<"#">> \o fragment ELSE <<>>)

\* urlunparse((scheme, netloc, url, params, query, fragment))
urlunparse(scheme, netloc, url, params, query, fragment) ==
  urlunsplit(scheme, netloc,
             IF params # <<>> THEN url \o <<";">> \o params ELSE url,
             query, fragment)

(***************************************************************************)
(* The texts of download_repo.                                             *)
(***************************************************************************)
\* access_token = None (the default); no drawn token has this shape.
None == <<"None">>
\* `if access_token:` is false for None and for the empty string.
Truthy(access_token) == access_token # None /\ access_token # <<>>

TokenPartPlaceholder == <<"*", "*", "*", "T", "O", "K", "E", "N", "_", "P", "A", "R", "T", "*", "*", "*">>
TokenPlaceholder == <<"*", "*", "*", "T", "O", "K", "E", "N", "*", "*", "*">>
CloningErrorPrefix == <<"E", "r", "r", "o", "r", " ", "d", "u", "r", "i", "n", "g", " ", "c", "l", "o", "n", "i", "n", "g", ":", " ">>
UnexpectedErrorPrefix == <<"A", "n", " ", "u", "n", "e", "x", "p", "e", "c", "t", "e", "d", " ", "e", "r", "r", "o", "r", " ", "o", "c", "c", "u", "r", "r", "e", "d", ":", " ">>

PreparingLine(local_path) == <<"P", "r", "e", "p", "a", "r", "i", "n", "g", " ", "t", "o", " ", "c", "l", "o", "n", "e", " ", "r", "e", "p", "o", "s", "i", "t", "o", "r", "y", " ", "t", "o", " ">> \o local_path
ExistsLine(local_path) ==
  <<"R", "e", "p", "o", "s", "i", "t", "o", "r", "y", " ", "a", "l", "r", "e", "a", "d", "y", " ", "e", "x", "i", "s", "t", "s", " ", "a", "t", " ">> \o local_path \o <<".", " ", "U", "s", "i", "n", "g", " ", "e", "x", "i", "s", "t", "i", "n", "g", " ", "r", "e", "p", "o", "s", "i", "t", "o", "r", "y", ".">>
UsingTokenLine == <<"U", "s", "i", "n", "g", " ", "a", "c", "c", "e", "s", "s", " ", "t", "o", "k", "e", "n", " ", "f", "o", "r", " ", "a", "u", "t", "h", "e", "n", "t", "i", "c", "a", "t", "i", "o", "n">>
CloningLine(url, local_path) ==
  <<"C", "l", "o", "n", "i", "n", "g", " ", "r", "e", "p", "o", "s", "i", "t", "o", "r", "y", " ", "f", "r", "o", "m", " ">> \o url \o <<" ", "t", "o", " ">> \o local_path
ClonedLine == <<"R", "e", "p", "o", "s", "i", "t", "o", "r", "y", " ", "c", "l", "o", "n", "e", "d", " ", "s", "u", "c", "c", "e", "s", "s", "f", "u", "l", "l", "y">>
UsingExisting(local_path) == <<"U", "s", "i", "n", "g", " ", "e", "x", "i", "s", "t", "i", "n", "g", " ", "r", "e", "p", "o", "s", "i", "t", "o", "r", "y", " ", "a", "t", " ">> \o local_path

\* str(e) of the exceptions the environment raises
GitNotFoundText == <<"[", "E", "r", "r", "n", "o", " ", "2", "]", " ", "N", "o", " ", "s", "u", "c", "h", " ", "f", "i", "l", "e", " ", "o", "r", " ", "d", "i", "r", "e", "c", "t", "o", "r", "y", ":", " ", "'", "g", "i", "t", "'">>
NotADirectoryText(path) == <<"[", "E", "r", "r", "n", "o", " ", "2", "0", "]", " ", "N", "o", "t", " ", "a", " ", "d", "i", "r", "e", "c", "t", "o", "r", "y", ":", " ", "'">> \o path \o <<"'">>
PermissionDeniedText(path) == <<"[", "E", "r", "r", "n", "o", " ", "1", "3", "]", " ", "P", "e", "r", "m", "i", "s", "s", "i", "o", "n", " ", "d", "e", "n", "i", "e", "d", ":", " ", "'">> \o path \o <<"'">>
Utf8DecodeText == <<"'", "u", "t", "f", "-", "8", "'", " ", "c", "o", "d", "e", "c", " ", "c", "a", "n", "'", "t", " ", "d", "e", "c", "o", "d", "e", " ", "b", "y", "t", "e", " ", "0", "x", "f", "f", " ", "i", "n", " ", "p", "o", "s", "i", "t", "i", "o", "n", " ", "0", ":", " ", "i", "n", "v", "a", "l", "i", "d", " ", "s", "t", "a", "r", "t", " ", "b", "y", "t", "e">>

\* A byte string is the sequence of its ASCII characters; "0xff" is a byte that
\* is not valid UTF-8. bytes.decode("utf-8") raises UnicodeDecodeError on it and
\* yields the characters otherwise.
InvalidByte == "0xff"
Decodable(bytes) == InvalidByte \notin Range(bytes)
Decode(bytes) == SelectSeq(bytes, LAMBDA b : b # InvalidByte)

(***************************************************************************)
(* The pure parts of download_repo.                                        *)
(***************************************************************************)
\* A faulty WithToken: params, query and fragment are passed on.
WithTokenKeepingRest(parsed, access_token) ==
  urlunparse(parsed.scheme, access_token \o <<"@">> \o parsed.netloc,
             parsed.path, parsed.params, parsed.query, parsed.fragment)

\* Line 55: urlunparse((parsed.scheme, f"{access_token}@{parsed.netloc}", parsed.path, '', '', ''))
WithToken(parsed, access_token) ==
  urlunparse(parsed.scheme, access_token \o <<"@">> \o parsed.netloc,
             parsed.path, <<>>, <<>>, <<>>)

\* A faulty Rewrite: the token is put into the URL whatever the type.
RewriteAnyType(parsed, repo_url, type, access_token) ==
  IF ~parsed.ok THEN [ok |-> FALSE, err |-> parsed.err, url |-> repo_url]
  ELSE [ok |-> TRUE, err |-> <<>>, url |-> WithToken(parsed, access_token)]

\* Lines 50-55, with the URL parsed: rewritten only for "aone".
Rewrite(parsed, repo_url, type, access_token) ==
  IF ~parsed.ok THEN [ok |-> FALSE, err |-> parsed.err, url |-> repo_url]
  ELSE IF type = "aone" THEN [ok |-> TRUE, err |-> <<>>, url |-> WithToken(parsed, access_token)]
  ELSE [ok |-> TRUE, err |-> <<>>, url |-> repo_url]

\* A faulty AlreadyCloned: the existence check never finds a repository.
AlreadyClonedNever(state) == FALSE

\* Line 39: `os.path.exists(local_path) and os.listdir(local_path)` for a
\* local_path that os.listdir can list (ListDirError tells where it raises).
AlreadyCloned(state) == state # "absent" /\ state = "populated"

\* os.path.exists(local_path). It is False too for a directory under a parent
\* that the process may not search: os.stat fails and the error is swallowed.
PathExists(state) == state \notin {"absent", "unreachable"}

\* str(e) of the OSError that os.listdir(local_path) raises, <<>> where it
\* goes through: NotADirectoryError for a file, PermissionError for a
\* directory that the process may not read.
ListDirError(state, path) ==
  IF state = "file" THEN NotADirectoryText(path)
  ELSE IF state = "unlistable" THEN PermissionDeniedText(path)
  ELSE <<>>

\* A faulty AfterMakeDirs: the directory is not created.
AfterMakeDirsNothing(state) == state

\* Line 45: local_path after os.makedirs(local_path, exist_ok=True) went through.
AfterMakeDirs(state) == IF state = "absent" THEN "empty" ELSE state

\* A faulty LoggedUrl: the URL that is cloned is the URL that is logged.
LoggedUrlCloned(repo_url, url) == url

\* Lines 59-60: the URL of the "Cloning repository" log line is repo_url,
\* "to avoid exposing the token in logs".
LoggedUrl(repo_url, url) == repo_url

\* Lines 47-55: [ok, err, url]; ok is FALSE where urlparse raises ValueError
\* and err is its text. The
\* URL is parsed whenever a token is given.
CloneUrl(repo_url, type, access_token) ==
  IF Truthy(access_token)
  THEN Rewrite(urlparse(repo_url), repo_url, type, access_token)
  ELSE [ok |-> TRUE, err |-> <<>>, url |-> repo_url]

\* Lines 79-81: `if part in sanitized_msg: sanitized_msg = sanitized_msg.replace(...)`
RedactPart(msg, part) ==
  IF Occurs(part, msg) THEN Replace(msg, part, TokenPartPlaceholder) ELSE msg

\* A faulty Sanitize: the `if access_token:` guard of line 74 is missing, so
\* that an empty token is replaced too.
SanitizeUnguarded(error_msg, access_token) ==
  IF access_token = None THEN <<"N", "o", "n", "e">> \o error_msg
  ELSE IF ":" \in Range(access_token)
  THEN RedactPart(RedactPart(error_msg, SplitFirstColon(access_token)[1]),
                  SplitFirstColon(access_token)[2])
  ELSE Replace(error_msg, access_token, TokenPlaceholder)

\* Lines 74-84: the sanitization of error_msg
Sanitize(error_msg, access_token) ==
  IF ~Truthy(access_token) THEN error_msg
  ELSE IF ":" \in Range(access_token)
  THEN LET parts == SplitFirstColon(access_token)
       IN  RedactPart(RedactPart(error_msg, parts[1]), parts[2])
  ELSE IF Occurs(access_token, error_msg)
       THEN Replace(error_msg, access_token, TokenPlaceholder)
       ELSE error_msg

NoOutcome == [kind |-> "none", exc |-> "", via |-> "", msg |-> <<>>]
Returned(text) == [kind |-> "return", exc |-> "", via |-> "", msg |-> text]

\* A faulty OnCalledProcessError: no handler of its own, the exception falls
\* to `except Exception`.
OnCalledProcessErrorGeneric(stderr, access_token) ==
  [kind |-> "raise", exc |-> "ValueError", via |-> "unexpected",
   msg |-> UnexpectedErrorPrefix \o Decode(stderr)]

\* Lines 71-85, `except subprocess.CalledProcessError`: an exception raised
\* inside the handler (the decode of line 72) leaves download_repo as it is,
\* the `except Exception` clause of the same try does not catch it.
OnCalledProcessError(stderr, access_token) ==
  IF ~Decodable(stderr)
  THEN [kind |-> "raise", exc |-> "UnicodeDecodeError", via |-> "process",
        msg |-> Utf8DecodeText]
  ELSE [kind |-> "raise", exc |-> "ValueError", via |-> "process",
        msg |-> CloningErrorPrefix \o Sanitize(Decode(stderr), access_token)]

\* The exception classes of download_repo's caller that are ValueError:
\* the ValueError of lines 85 and 87, and the UnicodeDecodeError of line 72,
\* which Python derives from ValueError (through UnicodeError).
ValueErrorClasses == {"ValueError", "UnicodeDecodeError"}

\* A faulty OnException: no `except Exception`, the OSError of the file
\* system or of subprocess.run reaches the caller as it is.
OnExceptionUncaught(text) ==
  [kind |-> "raise", exc |-> "OSError", via |-> "unexpected", msg |-> text]

\* Lines 86-87, `except Exception`
OnException(text) ==
  [kind |-> "raise", exc |-> "ValueError", via |-> "unexpected",
   msg |-> UnexpectedErrorPrefix \o text]

(***************************************************************************)
(* State.                                                                  *)
(***************************************************************************)
Procs == {1, 2}

VARIABLES
  fs,         \* local_path on the file system: absent, empty, populated, file
  pc,         \* where each invocation of download_repo stands
  args,       \* its arguments
  clone_url,  \* its local clone_url (None before line 48)
  logs,       \* the lines it gave to the logger
  trace,      \* what it did to the outside: subprocesses run, file system calls
  outcome,    \* what it returned or raised
  pre,        \* local_path on the file system when it was called
  ncalls      \* calls made so far

vars == <<fs, pc, args, clone_url, logs, trace, outcome, pre, ncalls>>

LocalPath == <<"/", "w">>
\* local_path on the file system: absent, an empty directory, a non-empty
\* directory, a file, a non-empty directory that the process may not read
\* ("unlistable"), a non-empty directory under a parent that the process may
\* not search ("unreachable").
FsStates == {"absent", "empty", "populated", "file", "unlistable", "unreachable"}
\* The states in which local_path exists and is not empty.
NonEmptyStates == {"populated", "unlistable", "unreachable"}

Run(cmd, url, path) ==
  [ev |-> "run", cmd |-> cmd, url |-> url, path |-> path, rc |-> "", out |-> <<>>]
Exit(cmd, rc, out) ==
  [ev |-> "exit", cmd |-> cmd, url |-> <<>>, path |-> <<>>, rc |-> rc, out |-> out]
FsCall(name, path) ==
  [ev |-> name, cmd |-> "", url |-> <<>>, path |-> path, rc |-> "", out |-> <<>>]
Line(level, text) == [level |-> level, text |-> text]

NoArgs == [repo_url |-> <<>>, local_path |-> LocalPath, type |-> "aone",
           access_token |-> None]

Init ==
  /\ fs \in FsStates
  /\ pc = [p \in Procs |-> "idle"]
  /\ args = [p \in Procs |-> NoArgs]
  /\ clone_url = [p \in Procs |-> None]
  /\ logs = [p \in Procs |-> <<>>]
  /\ trace = [p \in Procs |-> <<>>]
  /\ outcome = [p \in Procs |-> NoOutcome]
  /\ pre = [p \in Procs |-> "absent"]
  /\ ncalls = 0

Finish(p, result) ==
  /\ outcome' = [outcome EXCEPT ![p] = result]
  /\ pc' = [pc EXCEPT ![p] = IF result.kind = "return" THEN "done" ELSE "raised"]

(***************************************************************************)
(* download_repo, one action per blocking step.                            *)
(***************************************************************************)
\* Lines 28-36: entry, the first log line, `git --version` started.
Call(p, Inputs, limit) ==
  /\ pc[p] = "idle"
  /\ ncalls < limit
  /\ \E in \in Inputs :
       /\ args' = [args EXCEPT ![p] = in]
       /\ logs' = [logs EXCEPT ![p] = <<Line("info", PreparingLine(in.local_path))>>]
  /\ clone_url' = [clone_url EXCEPT ![p] = None]
  /\ trace' = [trace EXCEPT ![p] = <<Run("version", <<>>, <<>>)>>]
  /\ outcome' = [outcome EXCEPT ![p] = NoOutcome]
  /\ pre' = [pre EXCEPT ![p] = fs]
  /\ pc' = [pc EXCEPT ![p] = "version"]
  /\ ncalls' = ncalls + 1
  /\ UNCHANGED fs

\* Lines 31-36: subprocess.run(check=True) of the version check comes back.
\* It raises FileNotFoundError when git cannot be started and
\* CalledProcessError when git exits non-zero.
VersionExit(p, env) ==
  /\ pc[p] = "version"
  /\ \E rc \in env.rcs : \E err \in env.stderrs :
       /\ rc = "nonzero" \/ err = <<>>
       /\ trace' = [trace EXCEPT ![p] = Append(@, Exit("version", rc, err))]
       /\ IF rc = "zero"
          THEN pc' = [pc EXCEPT ![p] = "exists"] /\ UNCHANGED outcome
          ELSE IF rc = "nonzero"
          THEN Finish(p, OnCalledProcessError(err, args[p].access_token))
          ELSE Finish(p, OnException(GitNotFoundText))
  /\ UNCHANGED <<fs, args, clone_url, logs, pre, ncalls>>

\* A faulty CheckExisting: a per-path lock, the check waits while another
\* call is between its own check and the end of its clone.
CheckExistingLocked(p) ==
  /\ pc[p] = "exists"
  /\ \A q \in Procs \ {p} : pc[q] \notin {"makedirs", "prepare", "clone", "cloning"}
  /\ trace' = [trace EXCEPT ![p] = Append(@, FsCall("exists", args[p].local_path))]
  /\ IF PathExists(fs) /\ ListDirError(fs, args[p].local_path) # <<>>
     THEN /\ Finish(p, OnException(ListDirError(fs, args[p].local_path)))
          /\ UNCHANGED logs
     ELSE IF fs = "populated"
     THEN /\ logs' = [logs EXCEPT ![p] =
                        Append(@, Line("warning", ExistsLine(args[p].local_path)))]
          /\ Finish(p, Returned(UsingExisting(args[p].local_path)))
     ELSE /\ pc' = [pc EXCEPT ![p] = "makedirs"]
          /\ UNCHANGED <<outcome, logs>>
  /\ UNCHANGED <<fs, args, clone_url, pre, ncalls>>

\* Lines 38-42: os.path.exists(local_path) and os.listdir(local_path).
\* os.listdir runs only where os.path.exists is true, and what it raises
\* (on a file, on a directory that may not be read) goes to `except Exception`.
CheckExisting(p) ==
  /\ pc[p] = "exists"
  /\ trace' = [trace EXCEPT ![p] = Append(@, FsCall("exists", args[p].local_path))]
  /\ IF PathExists(fs) /\ ListDirError(fs, args[p].local_path) # <<>>
     THEN /\ Finish(p, OnException(ListDirError(fs, args[p].local_path)))
          /\ UNCHANGED logs
     ELSE IF AlreadyCloned(fs)
     THEN /\ logs' = [logs EXCEPT ![p] =
                        Append(@, Line("warning", ExistsLine(args[p].local_path)))]
          /\ Finish(p, Returned(UsingExisting(args[p].local_path)))
     ELSE /\ pc' = [pc EXCEPT ![p] = "makedirs"]
          /\ UNCHANGED <<outcome, logs>>
  /\ UNCHANGED <<fs, args, clone_url, pre, ncalls>>

\* Lines 44-45: os.makedirs(local_path, exist_ok=True). An existing directory
\* is left as it is; creating a missing one may be refused (PermissionError),
\* and under a parent that may not be searched it is always refused.
MakeDirs(p, env) ==
  /\ pc[p] = "makedirs"
  /\ trace' = [trace EXCEPT ![p] = Append(@, FsCall("makedirs", args[p].local_path))]
  /\ \E granted \in env.mkdir :
       /\ granted \/ fs = "absent"
       /\ IF granted /\ fs # "unreachable"
          THEN /\ fs' = AfterMakeDirs(fs)
               /\ pc' = [pc EXCEPT ![p] = "prepare"]
               /\ UNCHANGED outcome
          ELSE /\ Finish(p, OnException(PermissionDeniedText(args[p].local_path)))
               /\ UNCHANGED fs
  /\ UNCHANGED <<args, clone_url, logs, pre, ncalls>>

\* Lines 56-62 with the clone URL cu built, or the way out when urlparse raised.
StartClone(p, a, cu) ==
  IF cu.ok
  THEN /\ clone_url' = [clone_url EXCEPT ![p] = cu.url]
       /\ logs' = [logs EXCEPT ![p] =
            (IF Truthy(a.access_token)
             THEN Append(@, Line("info", UsingTokenLine)) ELSE @)
            \o <<Line("info", CloningLine(LoggedUrl(a.repo_url, cu.url), a.local_path))>>]
       /\ trace' = [trace EXCEPT ![p] = Append(@, Run("clone", cu.url, a.local_path))]
       /\ pc' = [pc EXCEPT ![p] = "clone"]
       /\ UNCHANGED outcome
  ELSE /\ clone_url' = [clone_url EXCEPT ![p] = a.repo_url]
       /\ Finish(p, OnException(cu.err))
       /\ UNCHANGED <<logs, trace>>

\* Lines 47-62: the clone URL, the two log lines, `git clone` started.
PrepareClone(p) ==
  /\ pc[p] = "prepare"
  /\ StartClone(p, args[p],
                CloneUrl(args[p].repo_url, args[p].type, args[p].access_token))
  /\ UNCHANGED <<fs, args, pre, ncalls>>

\* The git that line 61 started writes into local_path while download_repo
\* waits for it: the directory is populated before the clone has exited
\* ("cloning": the call waits for a git that has written).
GitWrites(p) ==
  /\ pc[p] = "clone"
  /\ fs = "empty"
  /\ fs' = "populated"
  /\ pc' = [pc EXCEPT ![p] = "cloning"]
  /\ UNCHANGED <<args, clone_url, logs, trace, outcome, pre, ncalls>>

\* Lines 61-69: subprocess.run(check=True) of the clone comes back. It raises
\* FileNotFoundError when git cannot be started and CalledProcessError when
\* git exits non-zero. A clone that exits zero has populated local_path, one
\* that exits non-zero has left it as it is or has removed what was in it;
\* stdout.decode runs inside the try.
CloneExit(p, env) ==
  /\ pc[p] \in {"clone", "cloning"}
  /\ \E rc \in env.rcs :
     \E out \in (IF rc = "zero" THEN env.stdouts ELSE env.stderrs) :
       /\ rc = "notfound" => (out = <<>> /\ pc[p] = "clone")
       /\ trace' = [trace EXCEPT ![p] = Append(@, Exit("clone", rc, out))]
       /\ IF rc = "zero"
          THEN /\ fs' = "populated"
               /\ logs' = [logs EXCEPT ![p] = Append(@, Line("info", ClonedLine))]
               /\ IF Decodable(out)
                  THEN Finish(p, Returned(Decode(out)))
                  ELSE Finish(p, OnException(Utf8DecodeText))
          ELSE IF rc = "nonzero"
          THEN /\ Finish(p, OnCalledProcessError(out, args[p].access_token))
               /\ fs' \in {fs, "empty"}
               /\ UNCHANGED logs
          ELSE /\ Finish(p, OnException(GitNotFoundText))
               /\ UNCHANGED <<fs, logs>>
  /\ UNCHANGED <<args, clone_url, pre, ncalls>>

\* The caller has the result or the exception; the frame of the call is gone.
Return(p) ==
  /\ pc[p] \in {"done", "raised"}
  /\ pc' = [pc EXCEPT ![p] = "idle"]
  /\ args' = [args EXCEPT ![p] = NoArgs]
  /\ clone_url' = [clone_url EXCEPT ![p] = None]
  /\ logs' = [logs EXCEPT ![p] = <<>>]
  /\ trace' = [trace EXCEPT ![p] = <<>>]
  /\ outcome' = [outcome EXCEPT ![p] = NoOutcome]
  /\ pre' = [pre EXCEPT ![p] = "absent"]
  /\ UNCHANGED <<fs, ncalls>>

Step(p, Inputs, env, limit) ==
  \/ Call(p, Inputs, limit)
  \/ VersionExit(p, env)
  \/ CheckExisting(p)
  \/ MakeDirs(p, env)
  \/ PrepareClone(p)
  \/ GitWrites(p)
  \/ CloneExit(p, env)
  \/ Return(p)

(***************************************************************************)
(* Inputs and environments.                                                *)
(***************************************************************************)
\* "z" occurs in no text of download_repo, "K" occurs in both placeholders.
TokenAlphabet == {"z", "K", ":"}
Tokens == {None} \cup Seqs(TokenAlphabet, MaxTokLen)
StderrAlphabet == {"z", "K"}
InvalidUtf8 == <<InvalidByte>>
Stderrs == Seqs(StderrAlphabet, MaxErrLen) \cup {InvalidUtf8}
Stdouts == {<<>>, <<"w">>, InvalidUtf8}
Types == {"aone", "github"}

Inputs ==
  [repo_url     : {<<"h", "t", "t", "p", ":", "/", "/", "h", "/", "z", "?", "q">>, <<"h", "t", "t", "p", ":", "/", "/", "[", "w", "]", "/", "z">>},
   local_path   : {LocalPath},
   type         : Types,
   access_token : Tokens]

AnyEnv ==
  [rcs     |-> {"zero", "nonzero", "notfound"},
   stderrs |-> Stderrs,
   stdouts |-> Stdouts,
   mkdir   |-> BOOLEAN]

\* Successive calls by one caller, in any environment.
Next == Step(1, Inputs, AnyEnv, MaxCalls)
Spec == Init /\ [][Next]_vars

\* One call for each of many URLs, in an environment where nothing fails:
\* download_repo as a function from its arguments to the URL it clones.
UrlPrefixes == {<<>>, <<"h", "t", "t", "p", ":">>, <<"S", "s", "h", ":">>, <<" ", "h", "t", "t", "p", ":">>, <<"\f">> \o <<"h", "t", "t", "p", ":">>}
UrlAuthorities == {<<>>, <<"/", "/", "h">>, <<"/", "/", "[", ":", ":", "1", "]">>, <<"/", "/", "[", "w", "]">>, <<"/", "/", "[", "w">>}
UrlTails == Seqs({"/", "w", "?", "#", ";"}, MaxUrlLen)
Urls == {x \o y \o t : x \in UrlPrefixes, y \in UrlAuthorities, t \in UrlTails}

UrlInputs ==
  [repo_url     : Urls,
   local_path   : {LocalPath},
   type         : Types,
   access_token : {None, <<>>, <<"z", ":", "K">>}]

QuietEnv ==
  [rcs     |-> {"zero"},
   stderrs |-> {<<>>},
   stdouts |-> {<<>>},
   mkdir   |-> {TRUE}]

NextUrl == Step(1, UrlInputs, QuietEnv, 1)
SpecUrl == Init /\ [][NextUrl]_vars

\* Two callers (threads or processes) sharing the file system.
ConcInputs ==
  [repo_url     : {<<"h", "t", "t", "p", ":", "/", "/", "h", "/", "z", "?", "q">>},
   local_path   : {LocalPath},
   type         : {"aone"},
   access_token : {None, <<"z", ":", "K">>}]

ConcEnv ==
  [rcs     |-> {"zero", "nonzero", "notfound"},
   stderrs |-> {<<>>, <<"z">>},
   stdouts |-> {<<>>},
   mkdir   |-> BOOLEAN]

NextConc == \E p \in Procs : Step(p, ConcInputs, ConcEnv, MaxCalls)
SpecConc == Init /\ [][NextConc]_vars


(***************************************************************************)
(* What the claims speak of.                                               *)
(***************************************************************************)
Last(s) == s[Len(s)]
\* The subprocess cmd ("version", "clone") was started by the call of p.
Ran(p, cmd) == \E i \in 1..Len(trace[p]) : trace[p][i].ev = "run" /\ trace[p][i].cmd = cmd
\* The last thing the call of p saw is the exit of cmd with rc.
Exited(p, cmd, rc) ==
  /\ trace[p] # <<>>
  /\ Last(trace[p]).ev = "exit" /\ Last(trace[p]).cmd = cmd /\ Last(trace[p]).rc = rc
\* The URL handed to `git clone`.
ClonedUrl(p) ==
  LET i == CHOOSE i \in 1..Len(trace[p]) : trace[p][i].ev = "run" /\ trace[p][i].cmd = "clone"
  IN  trace[p][i].url
\* The steps of the call in order: subprocesses started, file system calls.
StepName(e) == IF e.ev = "run" THEN e.cmd ELSE e.ev
IsStep(e) == e.ev # "exit"
StepsArePrefix(t, order) ==
  /\ Len(t) <= Len(order)
  /\ \A i \in 1..Len(t) : StepName(t[i]) = order[i]
LogTexts(p) == {logs[p][i].text : i \in 1..Len(logs[p])}
\* The secrets of a token: both sides of its first colon, or all of it.
Secrets(access_token) ==
  IF ":" \in Range(access_token)
  THEN {SplitFirstColon(access_token)[1], SplitFirstColon(access_token)[2]} \ {<<>>}
  ELSE {access_token}
\* The log lines that can be made of repo_url and local_path alone.
LinesOf(a) ==
  {PreparingLine(a.local_path), ExistsLine(a.local_path), UsingTokenLine,
   CloningLine(a.repo_url, a.local_path), ClonedLine}

(***************************************************************************)
(* C1                                                                      *)
(***************************************************************************)
\* C1 as stated: every call on a local_path that exists and is not empty
\* returns "Using existing repository at <local_path>", never raises and never
\* starts the clone.
C1_AlwaysReuses ==
  \A p \in Procs : pre[p] \in NonEmptyStates =>
    /\ ~Ran(p, "clone")
    /\ pc[p] # "raised"
    /\ pc[p] = "done" => outcome[p] = Returned(UsingExisting(args[p].local_path))

\* C1 amended: a call on a local_path that exists and is not empty returns
\* "Using existing repository at <local_path>" once its version check has
\* exited zero and the directory can be seen and listed; no call on it starts
\* the clone or changes the directory. One raises only because its version
\* check failed, because os.listdir raised on a directory that may not be
\* read, or because os.makedirs raised on a directory that os.path.exists
\* could not see.
C1_ReusesOnceGitAnswers ==
  \A p \in Procs : pre[p] \in NonEmptyStates =>
    /\ ~Ran(p, "clone")
    /\ fs = pre[p]
    /\ pc[p] \in {"version", "exists", "makedirs", "done", "raised"}
    /\ pc[p] = "exists" => Exited(p, "version", "zero")
    /\ pc[p] = "makedirs" => pre[p] = "unreachable"
    /\ pc[p] = "done" =>
         /\ pre[p] = "populated"
         /\ outcome[p] = Returned(UsingExisting(args[p].local_path))
    /\ pc[p] = "raised" =>
         \/ Exited(p, "version", "nonzero")
         \/ Exited(p, "version", "notfound")
         \/ /\ pre[p] = "unlistable" /\ Last(trace[p]).ev = "exists"
            /\ outcome[p] = OnException(PermissionDeniedText(args[p].local_path))
         \/ /\ pre[p] = "unreachable" /\ Last(trace[p]).ev = "makedirs"
            /\ outcome[p] = OnException(PermissionDeniedText(args[p].local_path))
    /\ pre[p] = "populated" /\ Len(trace[p]) > 2 => pc[p] = "done"

\* A second call in succession has returned the existing repository.
C1_Witness ==
  /\ ncalls >= 2 /\ pre[1] = "populated" /\ pc[1] = "done"
  /\ outcome[1] = Returned(UsingExisting(LocalPath))
  /\ Truthy(args[1].access_token)

(***************************************************************************)
(* C2                                                                      *)
(***************************************************************************)
\* C2 as stated: with a token and type "aone" the URL cloned is
\* scheme + "://" + token + "@" + netloc + path of repo_url.
C2_SchemeTokenNetlocPath ==
  \A p \in Procs :
    Ran(p, "clone") /\ Truthy(args[p].access_token) /\ args[p].type = "aone" =>
      ClonedUrl(p) = urlparse(args[p].repo_url).scheme \o <<":", "/", "/">>
                     \o args[p].access_token \o <<"@">>
                     \o urlparse(args[p].repo_url).netloc
                     \o urlparse(args[p].repo_url).path

\* C2 amended: with a token and type "aone" the URL cloned is
\* scheme + "://" + token + "@" + netloc + path when repo_url has a scheme and
\* its path is empty or starts with "/"; without a scheme it starts with "//",
\* and a path that does not start with "/" is given one. Params, query and
\* fragment are dropped in every case.
C2_TokenBeforeNetloc ==
  \A p \in Procs :
    Ran(p, "clone") /\ Truthy(args[p].access_token) /\ args[p].type = "aone" =>
      ClonedUrl(p) =
        (IF urlparse(args[p].repo_url).scheme = <<>> THEN <<>>
         ELSE urlparse(args[p].repo_url).scheme \o <<":">>)
        \o <<"/", "/">> \o args[p].access_token \o <<"@">>
        \o urlparse(args[p].repo_url).netloc
        \o (IF /\ urlparse(args[p].repo_url).path # <<>>
               /\ Head(urlparse(args[p].repo_url).path) # "/"
            THEN <<"/">> ELSE <<>>)
        \o urlparse(args[p].repo_url).path

\* A URL with scheme, network location, path and query is cloned with a token.
C2_Witness ==
  /\ pc[1] = "clone" /\ args[1].type = "aone" /\ args[1].access_token = <<"z", ":", "K">>
  /\ urlparse(args[1].repo_url).scheme = <<"h", "t", "t", "p">>
  /\ urlparse(args[1].repo_url).netloc = <<"h">>
  /\ urlparse(args[1].repo_url).path = <<"/">>
  /\ urlparse(args[1].repo_url).query = <<"w">>
  /\ ClonedUrl(1) = <<"h", "t", "t", "p", ":", "/", "/", "z", ":", "K", "@", "h", "/">>

(***************************************************************************)
(* C3                                                                      *)
(***************************************************************************)
\* C3: without a token, or with a token and a type other than "aone", the URL
\* cloned is repo_url, character for character.
C3_UrlUnchanged ==
  \A p \in Procs :
    Ran(p, "clone") /\ (~Truthy(args[p].access_token) \/ args[p].type # "aone") =>
      /\ ClonedUrl(p) = args[p].repo_url
      /\ clone_url[p] = args[p].repo_url

\* A URL with a query is cloned with a token that the type makes useless.
C3_Witness ==
  /\ pc[1] = "clone" /\ args[1].type = "github" /\ args[1].access_token = <<"z", ":", "K">>
  /\ urlparse(args[1].repo_url).query # <<>>
  /\ urlparse(args[1].repo_url).scheme # <<>>

(***************************************************************************)
(* C4                                                                      *)
(***************************************************************************)
\* C4 as stated: when a subprocess exits non-zero and a token was given, the
\* message of the error holds no occurrence of either side of the token's
\* first colon, or of the whole token when it has no colon.
C4_NoSecretInMessage ==
  \A p \in Procs :
    /\ pc[p] = "raised" /\ outcome[p].via = "process" /\ outcome[p].exc = "ValueError"
    /\ Truthy(args[p].access_token)
    => \A secret \in Secrets(args[p].access_token) : ~Occurs(secret, outcome[p].msg)

(***************************************************************************)
(* C5                                                                      *)
(***************************************************************************)
\* C5 as stated: when the clone exits non-zero and no token was given, the
\* message of the error is the decoded stderr.
C5_MessageIsStderr ==
  \A p \in Procs :
    /\ pc[p] = "raised" /\ Exited(p, "clone", "nonzero")
    /\ ~Truthy(args[p].access_token) /\ Decodable(Last(trace[p]).out)
    => outcome[p].msg = Decode(Last(trace[p]).out)

\* C5 amended: when the clone exits non-zero and no token was given, the
\* ValueError's message is "Error during cloning: " followed by the decoded
\* stderr, nothing redacted.
C5_MessageIsPrefixedStderr ==
  \A p \in Procs :
    /\ pc[p] = "raised" /\ Exited(p, "clone", "nonzero")
    /\ ~Truthy(args[p].access_token) /\ Decodable(Last(trace[p]).out)
    => /\ outcome[p].exc = "ValueError"
       /\ outcome[p].msg = CloningErrorPrefix \o Decode(Last(trace[p]).out)

\* The clone has failed without a token, with a stderr that holds a token of
\* other calls.
C5_Witness ==
  /\ pc[1] = "raised" /\ Exited(1, "clone", "nonzero")
  /\ args[1].access_token = <<>>
  /\ Last(trace[1]).out = <<"z", "K", "z">>
  /\ outcome[1].msg = <<"E", "r", "r", "o", "r", " ", "d", "u", "r", "i", "n", "g", " ", "c", "l", "o", "n", "i", "n", "g", ":", " ", "z", "K", "z">>

(***************************************************************************)
(* C6                                                                      *)
(***************************************************************************)
\* C6 as stated: on a run that succeeds or fails through the process-failure
\* handler, no log line holds the token or the token-bearing clone URL.
C6_NoTokenInLogs ==
  \A p \in Procs :
    /\ pc[p] = "done" \/ (pc[p] = "raised" /\ outcome[p].via = "process")
    /\ Truthy(args[p].access_token)
    => \A text \in LogTexts(p) :
         /\ ~Occurs(args[p].access_token, text)
         /\ clone_url[p] # None /\ clone_url[p] # args[p].repo_url
              => ~Occurs(clone_url[p], text)

\* C6 amended: neither the token nor the clone URL is ever put into a log
\* line. Every line is one of the five messages made of repo_url and
\* local_path alone, so a line holds the token, or the token-bearing URL,
\* only where the message made of repo_url and local_path already does.
C6_LogsOnlyArguments ==
  \A p \in Procs :
    /\ LogTexts(p) \subseteq LinesOf(args[p])
    /\ /\ Truthy(args[p].access_token)
       /\ \A text \in LinesOf(args[p]) : ~Occurs(args[p].access_token, text)
       => \A text \in LogTexts(p) :
            /\ ~Occurs(args[p].access_token, text)
            /\ clone_url[p] # None /\ clone_url[p] # args[p].repo_url
                 => ~Occurs(clone_url[p], text)

\* A clone with a token in its URL has succeeded and logged four lines, the
\* token in none of them.
C6_Witness ==
  /\ pc[1] = "done" /\ Ran(1, "clone") /\ Len(logs[1]) = 4
  /\ args[1].access_token = <<"K", ":", "K">> /\ args[1].type = "aone"
  /\ clone_url[1] = <<"h", "t", "t", "p", ":", "/", "/", "K", ":", "K", "@", "h", "/", "z">>
  /\ \A text \in LogTexts(1) : ~Occurs(args[1].access_token, text)

(***************************************************************************)
(* C7                                                                      *)
(***************************************************************************)
\* C7 as stated: a non-zero exit of the version check leaves through the
\* handler of unexpected errors.
C7_VersionFailureIsUnexpected ==
  \A p \in Procs :
    pc[p] = "raised" /\ Exited(p, "version", "nonzero") =>
      /\ outcome[p].via = "unexpected"
      /\ StartsWith(outcome[p].msg, UnexpectedErrorPrefix)

\* C7 amended: a non-zero exit of the version check is a CalledProcessError
\* and leaves through the process-failure handler, as "Error during cloning: "
\* and the redacted stderr; only a git that cannot be started leaves through
\* the handler of unexpected errors.
C7_VersionFailureIsProcessFailure ==
  \A p \in Procs :
    /\ pc[p] = "raised" /\ Exited(p, "version", "nonzero") =>
         /\ outcome[p].via = "process"
         /\ Decodable(Last(trace[p]).out) =>
              /\ outcome[p].exc = "ValueError"
              /\ StartsWith(outcome[p].msg, CloningErrorPrefix)
              /\ ~Truthy(args[p].access_token) =>
                   outcome[p].msg = CloningErrorPrefix \o Last(trace[p]).out
    /\ pc[p] = "raised" /\ Exited(p, "version", "notfound") =>
         /\ outcome[p].via = "unexpected"
         /\ outcome[p].msg = UnexpectedErrorPrefix \o GitNotFoundText

\* The version check has exited non-zero and its stderr was redacted.
C7_Witness ==
  /\ pc[1] = "raised" /\ Exited(1, "version", "nonzero")
  /\ args[1].access_token = <<"z", ":", "z">>
  /\ Last(trace[1]).out = <<"z", "K", "z">>
  /\ outcome[1].msg = <<"E", "r", "r", "o", "r", " ", "d", "u", "r", "i", "n", "g", " ", "c", "l", "o", "n", "i", "n", "g", ":", " ", "*", "*", "*", "T", "O", "K", "E", "N", "_", "P", "A", "R", "T", "*", "*", "*", "K", "*", "*", "*", "T", "O", "K", "E", "N", "_", "P", "A", "R", "T", "*", "*", "*">>

(***************************************************************************)
(* C8                                                                      *)
(***************************************************************************)
\* C8: every failure ends the call and reaches the caller as one exception
\* that is a ValueError and carries a message. A subprocess that does not
\* exit zero is the last thing the call did, nothing is done after the
\* failure, and the clone is started at most once.
C8_OneValueError ==
  /\ [](\A p \in Procs :
         /\ pc[p] = "raised" <=> outcome[p].kind = "raise"
         /\ pc[p] = "raised" =>
              /\ outcome[p].exc \in ValueErrorClasses
              /\ outcome[p].msg # <<>>
         /\ \A i \in 1..Len(trace[p]) :
              trace[p][i].ev = "exit" /\ trace[p][i].rc # "zero"
                => i = Len(trace[p]) /\ pc[p] = "raised"
         /\ Cardinality({i \in 1..Len(trace[p]) :
                           trace[p][i].ev = "run" /\ trace[p][i].cmd = "clone"}) <= 1)
  /\ [][\A p \in Procs :
          pc[p] = "raised" =>
            \/ trace'[p] = trace[p] /\ outcome'[p] = outcome[p] /\ pc'[p] = "raised"
            \/ pc'[p] = "idle"]_vars

\* The clone has exited non-zero with a stderr that is not UTF-8: the caller
\* has the UnicodeDecodeError of line 72, the clone was started once.
C8_Witness ==
  /\ pc[1] = "raised" /\ Exited(1, "clone", "nonzero")
  /\ Last(trace[1]).out = InvalidUtf8
  /\ outcome[1].exc = "UnicodeDecodeError" /\ outcome[1].msg = Utf8DecodeText
  /\ Len(SelectSeq(trace[1], LAMBDA e : e.ev = "run")) = 2

(***************************************************************************)
(* C9                                                                      *)
(***************************************************************************)
\* C9: the steps of a call are, in this order, the version check, the
\* existence check, the creation of the directory and the clone; the clone
\* is started only after the version check exited zero and with local_path
\* on the file system; at most two subprocesses are started, the version
\* check first.
C9_StepsInOrder ==
  \A p \in Procs :
    /\ StepsArePrefix(SelectSeq(trace[p], IsStep),
                      <<"version", "exists", "makedirs", "clone">>)
    /\ Len(SelectSeq(trace[p], LAMBDA e : e.ev = "run")) <= 2
    /\ Ran(p, "clone") =>
         /\ trace[p][2] = Exit("version", "zero", <<>>)
         /\ \E i \in 1..Len(trace[p]) : trace[p][i].ev = "makedirs"
    /\ pc[p] \in {"clone", "cloning"} => fs \in {"empty", "populated"}

\* The clone runs in a directory that the call has created.
C9_Witness ==
  /\ pc[1] = "clone" /\ pre[1] = "absent" /\ fs = "empty"
  /\ Len(trace[1]) = 5

(***************************************************************************)
(* C10                                                                     *)
(***************************************************************************)
\* C10: two concurrent calls on the same local_path are not kept apart. A
\* call at its existence check can always take it, wherever the other call
\* stands, and on a local_path that is not populated the check sends it on
\* to create the directory and clone: its result depends on the file system
\* alone.
C10_NoMutualExclusion ==
  /\ [](\A p \in Procs : pc[p] = "exists" => ENABLED CheckExisting(p))
  /\ [][\A p \in Procs :
          pc[p] = "exists" /\ pc'[p] # "exists" /\ fs \in {"absent", "empty"}
            => pc'[p] = "makedirs"]_vars

\* Both calls have passed the check of the same local_path, which neither
\* clone has populated yet, and both clones are running.
C10_Witness ==
  /\ pc[1] = "clone" /\ pc[2] = "clone"
  /\ args[1].local_path = args[2].local_path
  /\ fs = "empty"
  /\ ClonedUrl(1) # ClonedUrl(2)

=============================================================================
